---- MODULE Spec2Model ----
(***************************************************************************)
(* Model of the RTP output thread of the broadcast encoder                 *)
(* (src/output/rtp/rtp.c): the paced-delivery loop open_output, the RTP    *)
(* encapsulation write_rtp_pkt / rtp_open / rtp_close and the cleanup      *)
(* handler close_output, together with the producer side of the shared     *)
(* output queue and the drop flag.                                         *)
(*                                                                         *)
(* Granularity.  The payload FIFO is kept as a sequence of transport-      *)
(* stream packets (each element stands for 188 bytes), the clock-reference *)
(* FIFO as a sequence of int64 values (each element stands for 8 bytes).   *)
(* Byte counts are computed from these with the code's own arithmetic.     *)
(* 32 and 64 bit quantities that go on the wire are kept as big-endian     *)
(* byte sequences, so that truncation is modelled and not assumed.         *)
(***************************************************************************)
EXTENDS Integers, Sequences, FiniteSets, TLC

\* ------------------------------------------------------------ bounds ----
\* number of multiplexed data units the producers enqueue in one run
MaxUnits == 3
\* number of drop signals raised in one run
MaxDrops == 1
\* number of spontaneous advances of the clock (besides the deadline sleeps)
MaxTicks == 1
\* number of direct calls of write_rtp_pkt in the encapsulator specification
MaxRtpCalls == 4
\* clock-reference ticks between two consecutive transport-stream packets
PcrStep == 3
\* the single-packet scenario: units enqueued, the first clock reference and
\* the distance between the clock references of consecutive units
MaxScenarioUnits == 15
ScenarioFirstPcr == 1000
ScenarioPcrGap == 2700
\* number of drop signals raised in one run of the repeated-signal
\* specification
MaxDropSignals == 2
\* number of raw frames the producers put on the encode queue in one run
MaxFrames == 2

\* -------------------------------------------------- program constants ---
RTP_VERSION == 2
MPEG_TS_PAYLOAD_TYPE == 33
RTP_HEADER_SIZE == 12
\* bytes of one transport-stream packet (the divisor of the pcr-list length)
TsPacketSize == 188
\* clock references read per payload block: int64_t pcrs[7]
NumPcrs == 7
SizeofInt64 == 8
\* buffer_frames when the system is not low-latency
DefaultBufferFrames == 2
\* uint16_t seq wraps at 2^16
SeqModulus == 65536
\* TS_PACKETS_SIZE: rtp_buf holds one payload block whose clock references
\* are the NumPcrs values read with it, one per 188 bytes.
TS_PACKETS_SIZE == NumPcrs * TsPacketSize

\* NULL handle / "no value yet" for the int64 locals initialised to -1
NoClock == -1

\* ---------------------------------------------------- input domains -----
\* lengths in bytes of the units the multiplexer enqueues: whole transport
\* packets, less than and exactly one payload block.
UnitLens == {3 * TsPacketSize, NumPcrs * TsPacketSize}
\* session identifiers av_get_random_seed may return (uint32, big-endian)
Ssrcs == {<<0, 0, 0, 1>>, <<222, 173, 190, 239>>}
\* sessions already in use when write_rtp_pkt is called directly: the
\* number of earlier calls, all successful (near the 16-bit wrap and 0)
PriorCalls == {0, 65534, 65535}
\* timestamps for direct calls: int64 as 8 big-endian bytes
ApiTimestamps == {<<0, 0, 0, 0, 0, 0, 3, 232>>, <<0, 0, 0, 1, 128, 0, 0, 7>>}

\* ------------------------------------------------------- helpers --------
Min(a, b) == IF a < b THEN a ELSE b

Max(a, b) == IF a > b THEN a ELSE b

Range(s) == {s[k] : k \in 1..Len(s)}

RECURSIVE Flatten(_)
Flatten(ss) == IF ss = << >> THEN << >> ELSE Head(ss) \o Flatten(Tail(ss))

IsPrefix(s, t) == Len(s) <= Len(t) /\ SubSeq(t, 1, Len(s)) = s

\* ------------------------------------------------ bit stream writer -----
\* bs_write(s, n, v): the n low bits of v, most significant first
BsBits(n, v) == [k \in 1..n |-> (v \div (2 ^ (n - k))) % 2]

\* bs_write32 of a value kept as big-endian bytes: its 4 low-order bytes
BsBits32(bytes) ==
    LET low == SubSeq(bytes, Len(bytes) - 3, Len(bytes))
    IN  BsBits(8, low[1]) \o BsBits(8, low[2]) \o BsBits(8, low[3]) \o BsBits(8, low[4])

\* bs_flush: the bytes the written bits make up
BitsToBytes(bits) ==
    [b \in 1..(Len(bits) \div 8) |->
        bits[8*b-7] * 128 + bits[8*b-6] * 64 + bits[8*b-5] * 32 + bits[8*b-4] * 16
        + bits[8*b-3] * 8 + bits[8*b-2] * 4 + bits[8*b-1] * 2 + bits[8*b]]

\* an int64 value 0 <= x < 2^31 as its 8 big-endian bytes
Int64Bytes(x) ==
    <<0, 0, 0, 0, (x \div 16777216) % 256, (x \div 65536) % 256, (x \div 256) % 256, x % 256>>

\* ------------------------------------------------------- state ----------
VARIABLES
    \* shared obe_t state
    h_muxed_data,     \* h->muxed_data[0 .. h->num_muxed_data-1]
    output_drop,      \* h->output_drop
    output_mutex,     \* owner of h->output_mutex: "free" or "pacer"
    cv_signal,        \* a signal on h->output_cv delivered to the waiting pacer
    low_latency,      \* h->obe_system == OBE_SYSTEM_TYPE_LOW_LATENCY
    \* open_output locals
    pc, num_muxed_data, buffer_frames, ready, last_pcr, last_clock,
    start_mpeg_time, start_pcr_time, muxed_data, idx,
    fifo_data, fifo_pcr, rtp_buf, pcrs,
    \* obe_rtp_ctx and the handle open_output holds
    rtp_handle, p_rtp,
    \* heap blocks and the socket: "none", "live", "freed", "double"
    res,
    \* environment
    clock, cancel_req, n_enq, n_drops, n_ticks, next_id, last_enq_pcr,
    \* calls of write_rtp_pkt made on the session before the run (fixed)
    prior_calls,
    \* one call of udp_open: its position, arguments, locals and the context
    \* it builds (left alone by the output thread's loop)
    udp,
    \* the MP2 encoder thread start_encoder: its position, the encode queue
    \* and flags of its obe_encoder_t, its locals and heap blocks (left alone
    \* by the output thread and by udp_open)
    enc,
    \* history
    enq_log,          \* <<packet id, clock reference>> in enqueue order
    sent_log,         \* one record per write_rtp_pkt call
    \* for the block read last: whether a deadline sleep preceded its send,
    \* the sleep's target, and whether a drop signal had been raised (and no
    \* packet sent since) when the block was read
    slept,
    exit_cause,       \* why the thread ended
    handler_runs,     \* executions of close_output
    n_removed,        \* units taken from the shared queue
    n_sleeps,         \* deadline sleeps performed
    \* since the last send: whether a drop signal was raised by a producer,
    \* and whether the pacer observed (tested and cleared) the flag; since
    \* thread start: the number of times it observed the flag
    drop_note

\* not changed by the output thread
config == <<low_latency, prior_calls, udp, enc>>

shared == <<h_muxed_data, output_drop, output_mutex, cv_signal, config>>

locals == <<pc, num_muxed_data, buffer_frames, ready, last_pcr, last_clock,
            start_mpeg_time, start_pcr_time, muxed_data, idx,
            fifo_data, fifo_pcr, rtp_buf, pcrs>>

session == <<rtp_handle, p_rtp, res>>

env == <<clock, cancel_req, n_enq, n_drops, n_ticks, next_id, last_enq_pcr>>

history == <<enq_log, sent_log, slept, exit_cause, handler_runs, n_removed,
             n_sleeps, drop_note>>

vars == <<shared, locals, session, env, history>>

\* ------------------------------------------------ libavutil FIFO --------
\* av_fifo_size of the payload FIFO, in bytes
DataFifoSize(f) == Len(f) * TsPacketSize

\* av_fifo_size of the clock-reference FIFO, in bytes
PcrFifoSize(f) == Len(f) * SizeofInt64

\* bytes of pcr_list written for a unit of len bytes
PcrWriteBytes_NoScale(len) == len \div TsPacketSize

PcrWriteBytes(len) == (len * SizeofInt64) \div TsPacketSize

\* av_fifo_generic_write( fifo_data, data, len ): append, oldest first
FifoDataWrite_Prepend(f, unit) == SubSeq(unit.data, 1, unit.len \div TsPacketSize) \o f

FifoDataWrite(f, unit) == f \o SubSeq(unit.data, 1, unit.len \div TsPacketSize)

\* av_fifo_generic_write( fifo_pcr, pcr_list, (len * sizeof(int64_t)) / 188 )
FifoPcrWrite(f, unit) ==
    f \o SubSeq(unit.pcr_list, 1, PcrWriteBytes(unit.len) \div SizeofInt64)

\* bytes read from the clock-reference FIFO per payload block
PcrReadBytes_One == SizeofInt64

PcrReadBytes == NumPcrs * SizeofInt64

\* av_fifo_generic_read: the n oldest elements, and what is left
FifoTake(f, n) == SubSeq(f, 1, Min(n, Len(f)))

FifoRest(f, n) == SubSeq(f, Min(n, Len(f)) + 1, Len(f))

\* ------------------------------------------------ packet encapsulator ---
\* uint16_t seq after p_rtp->seq++
NextSeq_NoWrap(seq) == IF seq + 1 = SeqModulus THEN seq ELSE seq + 1

NextSeq(seq) == (seq + 1) % SeqModulus

\* (a header whose last field is filled from the sequence counter)
RtpHeader_SeqAsSsrc(seq, timestamp, ssrc) ==
    BitsToBytes(BsBits(2, RTP_VERSION)
                \o BsBits(1, 0)
                \o BsBits(1, 0)
                \o BsBits(4, 0)
                \o BsBits(1, 0)
                \o BsBits(7, MPEG_TS_PAYLOAD_TYPE)
                \o BsBits(16, seq)
                \o BsBits32(timestamp)
                \o BsBits(16, 0)
                \o BsBits(16, seq))

\* the 12 header bytes write_rtp_pkt builds with the bit writer
RtpHeader(seq, timestamp, ssrc) ==
    BitsToBytes(BsBits(2, RTP_VERSION)
                \o BsBits(1, 0)
                \o BsBits(1, 0)
                \o BsBits(4, 0)
                \o BsBits(1, 0)
                \o BsBits(7, MPEG_TS_PAYLOAD_TYPE)
                \o BsBits(16, seq)
                \o BsBits32(timestamp)
                \o BsBits32(ssrc))

\* udp_write: the size on success, -1 when send/sendto fails
udp_write(size, ok) == IF ok THEN size ELSE -1

\* the counters after the udp_write of write_rtp_pkt returned w
RtpAccount_Always(ctx, len, w) ==
    [ctx EXCEPT !.pkt_cnt = @ + 1, !.octet_cnt = @ + len]

RtpAccount(ctx, len, w) ==
    IF w < 0 THEN ctx ELSE [ctx EXCEPT !.pkt_cnt = @ + 1, !.octet_cnt = @ + len]

\* uint8_t pkt[RTP_HEADER_SIZE+TS_PACKETS_SIZE] is not initialised: what the
\* payload part holds before the memcpy, per 188 bytes (0: zero bytes,
\* -1: bytes left by earlier calls)
StackContents == {[j \in 1..NumPcrs |-> 0], [j \in 1..NumPcrs |-> -1]}

\* bytes handed to udp_write
DatagramSize(len) == RTP_HEADER_SIZE + TS_PACKETS_SIZE

\* write_rtp_pkt( handle, data, len, timestamp ): the context afterwards, the
\* datagram handed to udp_write (header, and what follows it up to size)
\* and the return value; stack is what pkt[] held on entry
write_rtp_pkt(ctx, data, len, timestamp, ok, stack) ==
    LET hdr  == RtpHeader(ctx.seq, timestamp, ctx.ssrc)
        ctx1 == [ctx EXCEPT !.seq = NextSeq(@)]
        buf  == SubSeq(data, 1, len \div TsPacketSize)
                  \o SubSeq(stack, len \div TsPacketSize + 1, Len(stack))
        size == DatagramSize(len)
        pkt  == [hdr |-> hdr,
                 payload |-> SubSeq(buf, 1, (size - RTP_HEADER_SIZE) \div TsPacketSize),
                 size |-> size]
        w    == udp_write(pkt.size, ok)
    IN  [ctx |-> RtpAccount(ctx1, len, w), pkt |-> pkt, ret |-> IF w < 0 THEN -1 ELSE 0]

\* the context rtp_open leaves: calloc'ed, ssrc drawn at random
NewRtpCtx(ssrc) == [seq |-> 0, ssrc |-> ssrc, pkt_cnt |-> 0, octet_cnt |-> 0]

\* ------------------------------------------------ resources -------------
Free(r) == CASE r = "live" -> "freed" [] r = "freed" -> "double" [] OTHER -> r

NoRes == [fifo_data |-> "none", fifo_pcr |-> "none", p_rtp |-> "none", udp |-> "none",
          output_params |-> "live", muxed_arr |-> "none"]

\* rtp_close: udp_close( p_rtp->udp_handle ); free( p_rtp )
rtp_close_LeakSocket(r) == [r EXCEPT !.p_rtp = Free(@)]

rtp_close(r) == [r EXCEPT !.udp = Free(@), !.p_rtp = Free(@)]

\* close_output: the cleanup handler
close_output(r, handle) ==
    LET r1 == IF r.fifo_data # "none" THEN [r EXCEPT !.fifo_data = Free(@)] ELSE r
        r2 == IF r1.fifo_pcr # "none" THEN [r1 EXCEPT !.fifo_pcr = Free(@)] ELSE r1
        r3 == IF handle THEN rtp_close(r2) ELSE r2
    IN  [r3 EXCEPT !.output_params = Free(@)]

\* ------------------------------------------------ udp_open: data --------
\* an option of the uri's query string: whether the tag is present, and the
\* characters av_find_info_tag copies into buf (none for a bare tag)
NoOpt == [given |-> FALSE, val |-> << >>]

Opt(chars) == [given |-> TRUE, val |-> chars]

\* "reuse" as absent, bare, and with the values 0, 1, 25 and on
ReuseOpts == {NoOpt, Opt(<< >>), Opt(<<"0">>), Opt(<<"1">>), Opt(<<"2", "5">>),
              Opt(<<"o", "n">>)}

\* "connect" as absent, 0 and 1
ConnectOpts == {NoOpt, Opt(<<"0">>), Opt(<<"1">>)}

\* resolved destinations: 239.0.0.1, 10.0.0.5 and ff02::1 (leading bytes)
Dests == {[family |-> "AF_INET", addr |-> <<239, 0, 0, 1>>],
          [family |-> "AF_INET", addr |-> <<10, 0, 0, 5>>],
          [family |-> "AF_INET6", addr |-> <<255, 2>>]}

Uris == [dest : Dests, reuse : ReuseOpts, connect : ConnectOpts]

\* what socket() returns for the successive entries of the local address
\* list: -1 on failure, else the lowest free descriptor (0 when the process
\* runs with descriptor 0 closed)
SocketResults == {<<3>>, <<-1>>, <<0>>, <<-1, 3>>, <<-1, -1>>, <<0, 3>>, <<0, -1>>,
                  <<-1, 0>>}

DigitChars == <<"0", "1", "2", "3", "4", "5", "6", "7", "8", "9">>

IsDigit(c) == \E d \in 1..10 : DigitChars[d] = c

DigitVal(c) == (CHOOSE d \in 1..10 : DigitChars[d] = c) - 1

RECURSIVE LeadingDigits(_)
LeadingDigits(buf) ==
    IF buf = << >> \/ ~IsDigit(Head(buf)) THEN 0 ELSE 1 + LeadingDigits(Tail(buf))

RECURSIVE DecimalValue(_, _)
DecimalValue(buf, n) ==
    IF n = 0 THEN 0 ELSE DecimalValue(buf, n - 1) * 10 + DigitVal(buf[n])

\* strtol( buf, &endptr, 10 ): the value and endptr - buf
Strtol(buf) ==
    LET signed == buf # << >> /\ Head(buf) \in {"-", "+"}
        body   == IF signed THEN Tail(buf) ELSE buf
        n      == LeadingDigits(body)
        v      == DecimalValue(body, n)
    IN  IF n = 0 THEN [val |-> 0, used |-> 0]
        ELSE [val |-> IF signed /\ Head(buf) = "-" THEN 0 - v ELSE v,
              used |-> n + (IF signed THEN 1 ELSE 0)]

\* is_multicast_address: 224.0.0.0/4 for IPv4, ff00::/8 for IPv6
is_multicast_address(dest) ==
    IF dest.family = "AF_INET" THEN dest.addr[1] \in 224..239 ELSE dest.addr[1] = 255

\* the context calloc returns: every field 0
NewUdpCtx ==
    [udp_fd |-> 0, is_multicast |-> 0, local_port |-> 0, reuse_socket |-> 0,
     is_connected |-> 0, dest_set |-> FALSE]

\* lines 253-261: the reuse option as parsed into s->reuse_socket
ReuseParsed(opt) ==
    IF ~opt.given THEN 0
    ELSE IF Strtol(opt.val).used = 0 THEN 1 ELSE Strtol(opt.val).val

\* lines 274-275: the connect option as parsed into s->is_connected
ConnectParsed(opt) == IF opt.given THEN Strtol(opt.val).val ELSE 0

\* line 294: whether SO_REUSEADDR is requested on the socket
ReuseWanted_IgnoreSpecified(ctx, reuse_specified) ==
    ctx.reuse_socket # 0 \/ ctx.is_multicast # 0

ReuseWanted(ctx, reuse_specified) ==
    ctx.reuse_socket # 0 \/ (ctx.is_multicast # 0 /\ reuse_specified = 0)

\* a call of udp_open( p_handle, uri ) about to start.  fds: the descriptors
\* open; mem: the context block; handle: *p_handle; so_reuse: SO_REUSEADDR
\* set on the socket; failed: the first step that failed; ret: the return
\* value (1 while the call has not returned)
UdpCall(uri) ==
    [pc |-> "calloc", uri |-> uri, s |-> NewUdpCtx, reuse_specified |-> 0,
     udp_fd |-> -1, fds |-> {}, mem |-> "none", handle |-> "unset",
     so_reuse |-> FALSE, failed |-> "none", ret |-> 1]

\* no call of udp_open in progress
UdpIdle ==
    [UdpCall([dest |-> [family |-> "AF_INET", addr |-> <<10, 0, 0, 5>>],
              reuse |-> NoOpt, connect |-> NoOpt]) EXCEPT !.pc = "idle"]

\* ------------------------------------------------ start_encoder data ----
\* the heap blocks and handles of start_encoder: "none", "live", "freed"
NoEncRes ==
    [tl_opts |-> "none", output_buf |-> "none", audio_conv |-> "none", fifo |-> "none",
     audio_buf |-> "none", enc_params |-> "live"]

\* lines 32-45: the thread has just been created; the encode queue is empty
EncStart ==
    [pc |-> "init",
     frames |-> << >>,          \* encoder->frames[0 .. num_raw_frames-1]
     num_raw_frames |-> 0,
     cancel_thread |-> FALSE,
     cv |-> FALSE,              \* a wakeup on encoder_cv delivered to the waiter
     raw_frame |-> 0,           \* the frame in hand, 0 for none
     count_at_read |-> 0,       \* num_raw_frames when frames[0] was last read
     saw_cancel |-> FALSE,      \* the thread found cancel_thread set
     n_added |-> 0,
     n_done |-> 0,              \* frames encoded and removed
     exit |-> "none",
     res |-> NoEncRes]

\* no encoder thread
EncIdle == [EncStart EXCEPT !.pc = "idle"]

\* ------------------------------------------------ initial state ---------
InitCommon ==
    /\ h_muxed_data = << >>
    /\ output_drop = FALSE
    /\ output_mutex = "free"
    /\ cv_signal = FALSE
    /\ low_latency \in BOOLEAN
    /\ num_muxed_data = 0
    /\ buffer_frames = 0
    /\ ready = 0
    /\ last_pcr = NoClock
    /\ last_clock = NoClock
    /\ start_mpeg_time = 0
    /\ start_pcr_time = 0
    /\ muxed_data = << >>
    /\ idx = 0
    /\ fifo_data = << >>
    /\ fifo_pcr = << >>
    /\ rtp_buf = << >>
    /\ pcrs = << >>
    /\ rtp_handle = FALSE
    /\ res = NoRes
    /\ clock = 0
    /\ cancel_req = FALSE
    /\ n_enq = 0
    /\ n_drops = 0
    /\ n_ticks = 0
    /\ next_id = 1
    /\ last_enq_pcr = 0
    /\ enq_log = << >>
    /\ sent_log = << >>
    /\ slept = [on |-> FALSE, target |-> 0, signalled |-> FALSE]
    /\ exit_cause = "none"
    /\ handler_runs = 0
    /\ n_removed = 0
    /\ n_sleeps = 0
    /\ drop_note = [raised |-> FALSE, seen |-> FALSE, resets |-> 0]

\* the output thread has just been created; the context is not allocated yet
Init ==
    /\ InitCommon
    /\ pc = "start"
    /\ p_rtp = NewRtpCtx(<<0, 0, 0, 0>>)
    /\ prior_calls = 0
    /\ udp = UdpIdle
    /\ enc = EncIdle

\* ------------------------------------------------ thread exit -----------
\* "return NULL" between pthread_cleanup_push and pthread_cleanup_pop: the
\* behaviour is undefined, the build either runs the pushed handler
\* (run = TRUE) or leaves the thread without running it (run = FALSE).
ReturnInScope(cause, r, handle, run) ==
    /\ pc' = "returned"
    /\ exit_cause' = cause
    /\ res' = IF run THEN close_output(r, handle) ELSE r
    /\ handler_runs' = handler_runs + (IF run THEN 1 ELSE 0)

\* a cancellation request acted upon at a cancellation point: the pushed
\* handler runs once and the thread ends
Cancelled(cause) ==
    /\ pc' = "cancelled"
    /\ exit_cause' = cause
    /\ res' = close_output(res, rtp_handle)
    /\ handler_runs' = handler_runs + 1

\* ------------------------------------------------ open_output: set-up ---
\* lines 193-211: both FIFOs allocated, cleanup handler pushed
AllocFifos ==
    /\ pc = "start"
    /\ pc' = "rtp_open"
    /\ res' = [res EXCEPT !.fifo_data = "live", !.fifo_pcr = "live"]
    /\ UNCHANGED <<shared, num_muxed_data, buffer_frames, ready, last_pcr, last_clock,
                   start_mpeg_time, start_pcr_time, muxed_data, idx, fifo_data, fifo_pcr,
                   rtp_buf, pcrs, rtp_handle, p_rtp, env, history>>

\* lines 194-205: av_fifo_alloc fails, return before the handler is pushed
AllocFifosFail ==
    /\ pc = "start"
    /\ \E first \in BOOLEAN :
          res' = IF first THEN res ELSE [res EXCEPT !.fifo_data = "live"]
    /\ pc' = "returned"
    /\ exit_cause' = "fifo_alloc"
    /\ UNCHANGED <<shared, num_muxed_data, buffer_frames, ready, last_pcr, last_clock,
                   start_mpeg_time, start_pcr_time, muxed_data, idx, fifo_data, fifo_pcr,
                   rtp_buf, pcrs, rtp_handle, p_rtp, env, enq_log, sent_log, slept,
                   handler_runs, n_removed, n_sleeps, drop_note>>

\* lines 213-218 with rtp_open (76-96) succeeding
RtpOpen ==
    /\ pc = "rtp_open"
    /\ \E ssrc \in Ssrcs : p_rtp' = NewRtpCtx(ssrc)
    /\ rtp_handle' = TRUE
    /\ res' = [res EXCEPT !.p_rtp = "live", !.udp = "live"]
    /\ buffer_frames' = IF low_latency THEN 0 ELSE DefaultBufferFrames
    /\ start_mpeg_time' = 0
    /\ start_pcr_time' = 0
    /\ pc' = "lock"
    /\ UNCHANGED <<shared, num_muxed_data, ready, last_pcr, last_clock, muxed_data, idx,
                   fifo_data, fifo_pcr, rtp_buf, pcrs, env, history>>

\* rtp_open fails: calloc fails (nothing allocated), or udp_open fails and
\* rtp_open returns -1 without freeing p_rtp; open_output returns NULL
RtpOpenFail ==
    /\ pc = "rtp_open"
    /\ \E calloc_ok \in BOOLEAN, run \in BOOLEAN :
          ReturnInScope(IF calloc_ok THEN "udp_open" ELSE "rtp_calloc",
                        IF calloc_ok THEN [res EXCEPT !.p_rtp = "live"] ELSE res,
                        rtp_handle, run)
    /\ UNCHANGED <<shared, num_muxed_data, buffer_frames, ready, last_pcr, last_clock,
                   start_mpeg_time, start_pcr_time, muxed_data, idx, fifo_data, fifo_pcr,
                   rtp_buf, pcrs, rtp_handle, p_rtp, env, enq_log, sent_log, slept,
                   n_removed, n_sleeps, drop_note>>

\* ------------------------------------------------ open_output: loop -----
\* lines 222-227: lock the queue; wait on output_cv when the queue holds as
\* many units as at the previous look (the wait releases the mutex)
LockOutput ==
    /\ pc = "lock"
    /\ output_mutex = "free"
    /\ IF Len(h_muxed_data) = num_muxed_data
          THEN /\ pc' = "wait"
               /\ cv_signal' = FALSE
               /\ UNCHANGED output_mutex
          ELSE /\ pc' = "locked"
               /\ output_mutex' = "pacer"
               /\ UNCHANGED cv_signal
    /\ UNCHANGED <<h_muxed_data, output_drop, config, num_muxed_data, buffer_frames,
                   ready, last_pcr, last_clock, start_mpeg_time, start_pcr_time, muxed_data,
                   idx, fifo_data, fifo_pcr, rtp_buf, pcrs, session, env, history>>

\* line 226 returns without a signal (a spurious wakeup, which POSIX allows)
SpuriousWake ==
    /\ pc = "wait"
    /\ output_mutex = "free"
    /\ ~cv_signal
    /\ output_mutex' = "pacer"
    /\ pc' = "locked"
    /\ UNCHANGED <<h_muxed_data, output_drop, cv_signal, config, num_muxed_data,
                   buffer_frames, ready, last_pcr, last_clock, start_mpeg_time,
                   start_pcr_time, muxed_data, idx, fifo_data, fifo_pcr, rtp_buf, pcrs,
                   session, env, history>>

\* line 226 returns: woken by a producer's signal, the mutex re-acquired
CondWake ==
    /\ pc = "wait"
    /\ output_mutex = "free"
    /\ cv_signal
    /\ cv_signal' = FALSE
    /\ output_mutex' = "pacer"
    /\ pc' = "locked"
    /\ UNCHANGED <<h_muxed_data, output_drop, config, num_muxed_data, buffer_frames,
                   ready, last_pcr, last_clock, start_mpeg_time, start_pcr_time, muxed_data,
                   idx, fifo_data, fifo_pcr, rtp_buf, pcrs, session, env, history>>

\* lines 232-239: the drop flag tested and cleared under drop_mutex
ReadyAfterDrop_Keep(r, drop) == r

ReadyAfterDrop(r, drop) == IF drop THEN 0 ELSE r

LastClockAfterDrop_Keep(lc, drop) == lc

LastClockAfterDrop(lc, drop) == IF drop THEN NoClock ELSE lc

\* lines 241-244: readiness after the fill-threshold test
ReadyAfterFill_NoThreshold(r, n, frames) == 1

ReadyAfterFill(r, n, frames) == IF r = 0 /\ n >= frames THEN 1 ELSE r

\* lines 229-250: below the fill threshold, unlock and loop again
FillWait ==
    /\ pc = "locked"
    /\ LET n == Len(h_muxed_data)
           r == ReadyAfterDrop(ready, output_drop)
       IN  /\ ReadyAfterFill(r, n, buffer_frames) = 0
           /\ num_muxed_data' = n
           /\ ready' = 0
           /\ last_clock' = LastClockAfterDrop(last_clock, output_drop)
           /\ drop_note' = [drop_note EXCEPT !.seen = @ \/ output_drop,
                                            !.resets = @ + (IF output_drop THEN 1 ELSE 0)]
    /\ output_drop' = FALSE
    /\ output_mutex' = "free"
    /\ pc' = "lock"
    /\ UNCHANGED <<h_muxed_data, cv_signal, config, buffer_frames, last_pcr,
                   start_mpeg_time, start_pcr_time, muxed_data, idx, fifo_data, fifo_pcr,
                   rtp_buf, pcrs, session, env, enq_log, sent_log, slept, exit_cause,
                   handler_runs, n_removed, n_sleeps>>

\* (a pacer that emptied both FIFOs when it found the drop flag set)
Snapshot_FlushOnDrop ==
    /\ pc = "locked"
    /\ LET n == Len(h_muxed_data)
           r == ReadyAfterDrop(ready, output_drop)
       IN  /\ ReadyAfterFill(r, n, buffer_frames) = 1
           /\ num_muxed_data' = n
           /\ ready' = 1
           /\ last_clock' = LastClockAfterDrop(last_clock, output_drop)
           /\ drop_note' = [drop_note EXCEPT !.seen = @ \/ output_drop,
                                            !.resets = @ + (IF output_drop THEN 1 ELSE 0)]
           /\ muxed_data' = SubSeq(h_muxed_data, 1, n)
    /\ fifo_data' = IF output_drop THEN << >> ELSE fifo_data
    /\ fifo_pcr' = IF output_drop THEN << >> ELSE fifo_pcr
    /\ output_drop' = FALSE
    /\ output_mutex' = "free"
    /\ res' = [res EXCEPT !.muxed_arr = "live"]
    /\ idx' = 0
    /\ pc' = "refill"
    /\ UNCHANGED <<h_muxed_data, cv_signal, config, buffer_frames, last_pcr,
                   start_mpeg_time, start_pcr_time, rtp_buf, pcrs,
                   rtp_handle, p_rtp, env, enq_log, sent_log, slept, exit_cause,
                   handler_runs, n_removed, n_sleeps>>

\* lines 229-260: ready; the queued pointers are copied and the mutex released
Snapshot ==
    /\ pc = "locked"
    /\ LET n == Len(h_muxed_data)
           r == ReadyAfterDrop(ready, output_drop)
       IN  /\ ReadyAfterFill(r, n, buffer_frames) = 1
           /\ num_muxed_data' = n
           /\ ready' = 1
           /\ last_clock' = LastClockAfterDrop(last_clock, output_drop)
           /\ drop_note' = [drop_note EXCEPT !.seen = @ \/ output_drop,
                                            !.resets = @ + (IF output_drop THEN 1 ELSE 0)]
           /\ muxed_data' = SubSeq(h_muxed_data, 1, n)
    /\ output_drop' = FALSE
    /\ output_mutex' = "free"
    /\ res' = [res EXCEPT !.muxed_arr = "live"]
    /\ idx' = 0
    /\ pc' = "refill"
    /\ UNCHANGED <<h_muxed_data, cv_signal, config, buffer_frames, last_pcr,
                   start_mpeg_time, start_pcr_time, fifo_data, fifo_pcr, rtp_buf, pcrs,
                   rtp_handle, p_rtp, env, enq_log, sent_log, slept, exit_cause,
                   handler_runs, n_removed, n_sleeps>>

\* lines 252-258: malloc of the pointer array fails
SnapshotFail ==
    /\ pc = "locked"
    /\ LET n == Len(h_muxed_data)
           r == ReadyAfterDrop(ready, output_drop)
       IN  /\ ReadyAfterFill(r, n, buffer_frames) = 1
           /\ num_muxed_data' = n
           /\ ready' = 1
           /\ last_clock' = LastClockAfterDrop(last_clock, output_drop)
           /\ drop_note' = [drop_note EXCEPT !.seen = @ \/ output_drop,
                                            !.resets = @ + (IF output_drop THEN 1 ELSE 0)]
    /\ output_drop' = FALSE
    /\ output_mutex' = "free"
    /\ \E run \in BOOLEAN : ReturnInScope("malloc", res, rtp_handle, run)
    /\ UNCHANGED <<h_muxed_data, cv_signal, config, buffer_frames, last_pcr,
                   start_mpeg_time, start_pcr_time, muxed_data, idx, fifo_data, fifo_pcr,
                   rtp_buf, pcrs, rtp_handle, p_rtp, env, enq_log, sent_log, slept,
                   n_removed, n_sleeps>>

\* lines 264-284, one iteration: the unit's payload and clock references go
\* into the two FIFOs, the unit leaves the shared queue and is destroyed
RefillUnit ==
    /\ pc = "refill"
    /\ idx < num_muxed_data
    /\ output_mutex = "free"
    /\ fifo_data' = FifoDataWrite(fifo_data, muxed_data[idx + 1])
    /\ fifo_pcr' = FifoPcrWrite(fifo_pcr, muxed_data[idx + 1])
    /\ h_muxed_data' = Tail(h_muxed_data)
    /\ n_removed' = n_removed + 1
    /\ idx' = idx + 1
    /\ UNCHANGED <<output_drop, output_mutex, cv_signal, config, pc, num_muxed_data,
                   buffer_frames, ready, last_pcr, last_clock, start_mpeg_time,
                   start_pcr_time, muxed_data, rtp_buf, pcrs, session, env, enq_log,
                   sent_log, slept, exit_cause, handler_runs, n_sleeps, drop_note>>

\* lines 266-270 / 274-278: av_fifo_realloc2 fails; the second failure comes
\* after the payload of the unit was written
RefillFail ==
    /\ pc = "refill"
    /\ idx < num_muxed_data
    /\ \E first \in BOOLEAN :
          fifo_data' = IF first THEN fifo_data
                       ELSE FifoDataWrite(fifo_data, muxed_data[idx + 1])
    /\ \E run \in BOOLEAN : ReturnInScope("realloc", res, rtp_handle, run)
    /\ UNCHANGED <<shared, num_muxed_data, buffer_frames, ready, last_pcr, last_clock,
                   start_mpeg_time, start_pcr_time, muxed_data, idx, fifo_pcr, rtp_buf,
                   pcrs, rtp_handle, p_rtp, env, enq_log, sent_log, slept, n_removed,
                   n_sleeps, drop_note>>

\* line 286: every copied unit done, free( muxed_data )
RefillDone ==
    /\ pc = "refill"
    /\ idx >= num_muxed_data
    /\ res' = [res EXCEPT !.muxed_arr = "none"]
    /\ muxed_data' = << >>
    /\ pc' = "send_loop"
    /\ UNCHANGED <<shared, num_muxed_data, buffer_frames, ready, last_pcr, last_clock,
                   start_mpeg_time, start_pcr_time, idx, fifo_data, fifo_pcr, rtp_buf,
                   pcrs, rtp_handle, p_rtp, env, history>>

\* line 292: a deadline sleep precedes the send when a baseline exists
NeedsSleep_Always(lc) == TRUE

NeedsSleep(lc) == lc # NoClock

\* lines 288-292: one payload block and its clock references are read
ReadBlock ==
    /\ pc = "send_loop"
    /\ DataFifoSize(fifo_data) >= TS_PACKETS_SIZE
    /\ rtp_buf' = FifoTake(fifo_data, TS_PACKETS_SIZE \div TsPacketSize)
    /\ fifo_data' = FifoRest(fifo_data, TS_PACKETS_SIZE \div TsPacketSize)
    /\ pcrs' = FifoTake(fifo_pcr, PcrReadBytes \div SizeofInt64)
    /\ fifo_pcr' = FifoRest(fifo_pcr, PcrReadBytes \div SizeofInt64)
    /\ slept' = [on |-> FALSE, target |-> 0, signalled |-> drop_note.raised]
    /\ pc' = IF NeedsSleep(last_clock) THEN "sleep" ELSE "send"
    /\ UNCHANGED <<shared, num_muxed_data, buffer_frames, ready, last_pcr, last_clock,
                   start_mpeg_time, start_pcr_time, muxed_data, idx, session, env,
                   enq_log, sent_log, exit_cause, handler_runs, n_removed, n_sleeps,
                   drop_note>>

\* line 288 false: less than one payload block buffered, next iteration
SendLoopExit ==
    /\ pc = "send_loop"
    /\ DataFifoSize(fifo_data) < TS_PACKETS_SIZE
    /\ pc' = "lock"
    /\ UNCHANGED <<shared, num_muxed_data, buffer_frames, ready, last_pcr, last_clock,
                   start_mpeg_time, start_pcr_time, muxed_data, idx, fifo_data, fifo_pcr,
                   rtp_buf, pcrs, session, env, history>>

\* line 305: the argument of sleep_input_clock
Deadline_FromLastPcr(pcr, pcr_base, mpeg_base, lpcr) == pcr - lpcr + mpeg_base

Deadline(pcr, pcr_base, mpeg_base, lpcr) == pcr - pcr_base + mpeg_base

\* line 305: sleep until the input clock reaches the deadline
Sleep ==
    /\ pc = "sleep"
    /\ LET target == Deadline(pcrs[1], start_pcr_time, start_mpeg_time, last_pcr)
       IN  /\ slept' = [slept EXCEPT !.on = TRUE, !.target = target]
           /\ clock' = Max(clock, target)
    /\ n_sleeps' = n_sleeps + 1
    /\ pc' = "send"
    /\ UNCHANGED <<shared, num_muxed_data, buffer_frames, ready, last_pcr, last_clock,
                   start_mpeg_time, start_pcr_time, muxed_data, idx, fifo_data, fifo_pcr,
                   rtp_buf, pcrs, session, cancel_req, n_enq, n_drops, n_ticks, next_id,
                   last_enq_pcr, enq_log, sent_log, exit_cause, handler_runs, n_removed,
                   drop_note>>

\* lines 308-312: the baseline is taken when there is none
Rebase_Never(lc, cur, new) == cur

Rebase(lc, cur, new) == IF lc = NoClock THEN new ELSE cur

\* the record kept of one call of write_rtp_pkt by the pacer
SendRecord(w, ok) ==
    [payload  |-> w.pkt.payload,
     hdr      |-> w.pkt.hdr,
     size     |-> w.pkt.size,
     ts       |-> Int64Bytes(pcrs[1]),
     pcr      |-> pcrs[1],
     ok       |-> ok,
     ret      |-> w.ret,
     slept    |-> slept.on,
     target   |-> slept.target,
     rebased  |-> (last_clock = NoClock),
     after_drop |-> drop_note.seen,
     after_signal |-> slept.signalled,
     clock    |-> clock,
     mpeg_base |-> start_mpeg_time',
     pcr_base  |-> start_pcr_time']

\* lines 308-316: baseline, last_clock/last_pcr, write_rtp_pkt
SendStep(ok) ==
    \E stack \in StackContents :
        LET w == write_rtp_pkt(p_rtp, rtp_buf, TS_PACKETS_SIZE, Int64Bytes(pcrs[1]), ok,
                               stack)
        IN  /\ start_mpeg_time' = Rebase(last_clock, start_mpeg_time, clock)
            /\ start_pcr_time' = Rebase(last_clock, start_pcr_time, pcrs[1])
            /\ last_clock' = clock
            /\ last_pcr' = pcrs[1]
            /\ p_rtp' = w.ctx
            /\ sent_log' = Append(sent_log, SendRecord(w, ok))
            /\ drop_note' = [drop_note EXCEPT !.raised = @ /\ ~slept.signalled,
                                             !.seen = FALSE]

\* lines 308-316 with write_rtp_pkt returning 0
SendOk ==
    /\ pc = "send"
    /\ SendStep(TRUE)
    /\ pc' = "send_loop"
    /\ UNCHANGED <<shared, num_muxed_data, buffer_frames, ready, muxed_data, idx,
                   fifo_data, fifo_pcr, rtp_buf, pcrs, rtp_handle, res, env, enq_log,
                   slept, exit_cause, handler_runs, n_removed, n_sleeps>>

\* (a pacer that logged the failure and went on with the next block)
SendFail_Continue ==
    /\ pc = "send"
    /\ SendStep(FALSE)
    /\ pc' = "send_loop"
    /\ UNCHANGED <<shared, num_muxed_data, buffer_frames, ready, muxed_data, idx,
                   fifo_data, fifo_pcr, rtp_buf, pcrs, rtp_handle, res, env, enq_log,
                   slept, exit_cause, handler_runs, n_removed, n_sleeps>>

\* lines 316-320: write_rtp_pkt fails, the thread returns
SendFail ==
    /\ pc = "send"
    /\ SendStep(FALSE)
    /\ \E run \in BOOLEAN : ReturnInScope("send", res, rtp_handle, run)
    /\ UNCHANGED <<shared, num_muxed_data, buffer_frames, ready, muxed_data, idx,
                   fifo_data, fifo_pcr, rtp_buf, pcrs, rtp_handle, env, enq_log,
                   slept, n_removed, n_sleeps>>

\* ------------------------------------------------ cancellation ----------
\* pthread_cancel acted upon in pthread_cond_wait (line 226): the mutex is
\* re-acquired before the handler runs, and close_output does not unlock it
CancelAtWait ==
    /\ pc = "wait"
    /\ cancel_req
    /\ output_mutex = "free"
    /\ output_mutex' = "pacer"
    /\ Cancelled("cancel_wait")
    /\ UNCHANGED <<h_muxed_data, output_drop, cv_signal, config, num_muxed_data,
                   buffer_frames, ready, last_pcr, last_clock, start_mpeg_time,
                   start_pcr_time, muxed_data, idx, fifo_data, fifo_pcr, rtp_buf, pcrs,
                   rtp_handle, p_rtp, env, enq_log, sent_log, slept, n_removed, n_sleeps,
                   drop_note>>

\* pthread_cancel acted upon in the deadline sleep (line 305)
CancelAtSleep ==
    /\ pc = "sleep"
    /\ cancel_req
    /\ Cancelled("cancel_sleep")
    /\ UNCHANGED <<shared, num_muxed_data, buffer_frames, ready, last_pcr, last_clock,
                   start_mpeg_time, start_pcr_time, muxed_data, idx, fifo_data, fifo_pcr,
                   rtp_buf, pcrs, rtp_handle, p_rtp, env, enq_log, sent_log, slept,
                   n_removed, n_sleeps, drop_note>>

\* ------------------------------------------------ environment -----------
\* the unit the multiplexer builds: len bytes of whole transport packets and
\* one clock reference for each
NewUnit(len) ==
    LET n == len \div TsPacketSize
    IN  [data |-> [j \in 1..n |-> next_id + j - 1],
         len |-> len,
         pcr_list |-> [j \in 1..n |-> last_enq_pcr + j * PcrStep]]

\* a producer appends a unit under output_mutex and signals output_cv
Enqueue ==
    /\ n_enq < MaxUnits
    /\ output_mutex = "free"
    /\ \E len \in UnitLens :
          LET u == NewUnit(len)
              n == Len(u.data)
          IN  /\ h_muxed_data' = Append(h_muxed_data, u)
              /\ enq_log' = enq_log \o [j \in 1..n |-> <<u.data[j], u.pcr_list[j]>>]
              /\ next_id' = next_id + n
              /\ last_enq_pcr' = u.pcr_list[n]
    /\ cv_signal' = (cv_signal \/ pc = "wait")
    /\ n_enq' = n_enq + 1
    /\ UNCHANGED <<output_drop, output_mutex, config, locals, session, clock,
                   cancel_req, n_drops, n_ticks, sent_log, slept, exit_cause,
                   handler_runs, n_removed, n_sleeps, drop_note>>

\* a producer sets the drop flag under drop_mutex; at most max signals are
\* raised in a run
RaiseDrop(max) ==
    /\ n_drops < max
    /\ output_drop' = TRUE
    /\ n_drops' = n_drops + 1
    /\ drop_note' = [drop_note EXCEPT !.raised = TRUE]
    /\ UNCHANGED <<h_muxed_data, output_mutex, cv_signal, config, locals, session,
                   clock, cancel_req, n_enq, n_ticks, next_id, last_enq_pcr, enq_log,
                   sent_log, slept, exit_cause, handler_runs, n_removed, n_sleeps>>

SignalDrop == RaiseDrop(MaxDrops)

\* pthread_cancel on the output thread
RequestCancel ==
    /\ ~cancel_req
    /\ pc \notin {"returned", "cancelled"}
    /\ cancel_req' = TRUE
    /\ UNCHANGED <<shared, locals, session, clock, n_enq, n_drops, n_ticks, next_id,
                   last_enq_pcr, history>>

\* time passes.  The clock is read only by the deadline sleep and when the
\* send takes the baseline, so its advance is observable only there.
Tick ==
    /\ n_ticks < MaxTicks
    /\ pc \in {"sleep", "send"}
    /\ clock' = clock + 1
    /\ n_ticks' = n_ticks + 1
    /\ UNCHANGED <<shared, locals, session, cancel_req, n_enq, n_drops, next_id,
                   last_enq_pcr, history>>

Next ==
    \/ AllocFifos \/ AllocFifosFail \/ RtpOpen \/ RtpOpenFail
    \/ LockOutput \/ SpuriousWake \/ CondWake \/ FillWait \/ Snapshot \/ SnapshotFail
    \/ RefillUnit \/ RefillFail \/ RefillDone
    \/ ReadBlock \/ SendLoopExit \/ Sleep \/ SendOk \/ SendFail
    \/ CancelAtWait \/ CancelAtSleep
    \/ Enqueue \/ SignalDrop \/ RequestCancel \/ Tick

Spec == Init /\ [][Next]_vars

\* ------------------------------------------------ encapsulator alone ----
\* The packet encapsulator driven directly: rtp_open, then calls of
\* write_rtp_pkt whose udp_write succeeds or fails, then rtp_close.  A
\* session may also start in use: prior_calls earlier calls, all successful.
UsedRtpCtx(ssrc, prior) ==
    [seq |-> prior % SeqModulus, ssrc |-> ssrc, pkt_cnt |-> prior,
     octet_cnt |-> prior * TS_PACKETS_SIZE]

InitRtp ==
    /\ InitCommon
    /\ low_latency = TRUE
    /\ udp = UdpIdle
    /\ enc = EncIdle
    /\ \/ /\ pc = "api_closed"
          /\ p_rtp = NewRtpCtx(<<0, 0, 0, 0>>)
          /\ prior_calls = 0
       \/ /\ pc = "api"
          /\ prior_calls \in PriorCalls
          /\ \E ssrc \in Ssrcs : p_rtp = UsedRtpCtx(ssrc, prior_calls)

\* rtp_open (lines 76-96) succeeding
ApiOpen ==
    /\ pc = "api_closed"
    /\ \E ssrc \in Ssrcs : p_rtp' = NewRtpCtx(ssrc)
    /\ rtp_handle' = TRUE
    /\ res' = [res EXCEPT !.p_rtp = "live", !.udp = "live"]
    /\ pc' = "api"
    /\ UNCHANGED <<shared, num_muxed_data, buffer_frames, ready, last_pcr, last_clock,
                   start_mpeg_time, start_pcr_time, muxed_data, idx, fifo_data, fifo_pcr,
                   rtp_buf, pcrs, env, history>>

\* the record kept of one direct call of write_rtp_pkt
ApiRecord(w, ts, ok) ==
    [payload  |-> w.pkt.payload,
     hdr      |-> w.pkt.hdr,
     size     |-> w.pkt.size,
     ts       |-> ts,
     pcr      |-> 0,
     ok       |-> ok,
     ret      |-> w.ret,
     slept    |-> FALSE,
     target   |-> 0,
     rebased  |-> FALSE,
     after_drop |-> FALSE,
     after_signal |-> FALSE,
     clock    |-> clock,
     mpeg_base |-> 0,
     pcr_base  |-> 0]

\* write_rtp_pkt (lines 125-152) on one payload block
ApiWrite ==
    /\ pc = "api"
    /\ Len(sent_log) < MaxRtpCalls
    /\ \E ts \in ApiTimestamps, ok \in BOOLEAN, stack \in StackContents :
          LET data == [j \in 1..NumPcrs |-> Len(sent_log) * NumPcrs + j]
              w    == write_rtp_pkt(p_rtp, data, TS_PACKETS_SIZE, ts, ok, stack)
          IN  /\ p_rtp' = w.ctx
              /\ sent_log' = Append(sent_log, ApiRecord(w, ts, ok))
    /\ UNCHANGED <<shared, locals, rtp_handle, res, env, enq_log, slept, exit_cause,
                   handler_runs, n_removed, n_sleeps, drop_note>>

\* rtp_close (lines 154-160)
ApiClose ==
    /\ pc = "api"
    /\ res' = rtp_close(res)
    /\ pc' = "api_done"
    /\ UNCHANGED <<shared, num_muxed_data, buffer_frames, ready, last_pcr, last_clock,
                   start_mpeg_time, start_pcr_time, muxed_data, idx, fifo_data, fifo_pcr,
                   rtp_buf, pcrs, rtp_handle, p_rtp, env, history>>

NextRtp == ApiOpen \/ ApiWrite \/ ApiClose

SpecRtp == InitRtp /\ [][NextRtp]_vars

\* ------------------------------------------------ scheduling -----------
\* The output thread runs whenever it can: a step of open_output that is
\* possible is eventually taken (the mutex is held by producers only for
\* the length of one enqueue, a deadline sleep ends when its deadline has
\* passed, a signalled wait returns).  No allocation or send fails, nobody
\* cancels the thread or raises the drop flag; producers enqueue at most
\* MaxUnits units, when they please.  A wait that nobody signals need not
\* return: spurious wakeups are possible, not promised.
PacerStep ==
    \/ AllocFifos \/ RtpOpen
    \/ LockOutput \/ CondWake \/ FillWait \/ Snapshot
    \/ RefillUnit \/ RefillDone
    \/ ReadBlock \/ SendLoopExit \/ Sleep \/ SendOk

NextLive == PacerStep \/ SpuriousWake \/ Enqueue \/ Tick

SpecLive == Init /\ [][NextLive]_vars /\ WF_vars(PacerStep)

\* ------------------------------------------------ write_rtp_pkt alone ---
\* write_rtp_pkt as a function of its arguments: payloads of one transport
\* packet and of a whole block, on contexts with either session identifier,
\* fresh or in use.
PayloadLens == {TsPacketSize, TS_PACKETS_SIZE}

InitPkt ==
    /\ InitCommon
    /\ low_latency = TRUE
    /\ udp = UdpIdle
    /\ enc = EncIdle
    /\ pc = "pkt"
    /\ prior_calls \in PriorCalls
    /\ \E ssrc \in Ssrcs : p_rtp = UsedRtpCtx(ssrc, prior_calls)

\* the record kept of one call: the arguments, the session identifier of
\* the context, and the datagram handed to udp_write
PktRecord(w, data, len, ts, ok) ==
    [data |-> data, len |-> len, ts |-> ts, ssrc |-> p_rtp.ssrc, ok |-> ok,
     hdr |-> w.pkt.hdr, payload |-> w.pkt.payload, size |-> w.pkt.size, ret |-> w.ret]

\* write_rtp_pkt (lines 125-152) on len bytes of payload
PktWrite ==
    /\ pc = "pkt"
    /\ Len(sent_log) < MaxRtpCalls
    /\ \E len \in PayloadLens, ts \in ApiTimestamps, ok \in BOOLEAN,
          stack \in StackContents :
          LET data == [j \in 1..(len \div TsPacketSize) |-> Len(sent_log) * NumPcrs + j]
              w    == write_rtp_pkt(p_rtp, data, len, ts, ok, stack)
          IN  /\ p_rtp' = w.ctx
              /\ sent_log' = Append(sent_log, PktRecord(w, data, len, ts, ok))
    /\ UNCHANGED <<shared, locals, rtp_handle, res, env, enq_log, slept, exit_cause,
                   handler_runs, n_removed, n_sleeps, drop_note>>

NextPkt == PktWrite

SpecPkt == InitPkt /\ [][NextPkt]_vars

\* ------------------------------------------------ single-packet units ---
\* The pacer in low-latency mode (fill threshold 0), fed with units of exactly
\* one transport-stream packet whose clock references are ScenarioFirstPcr,
\* ScenarioFirstPcr + ScenarioPcrGap, ...; no drop signal, no cancellation,
\* every allocation succeeds.
InitScenario ==
    /\ InitCommon
    /\ low_latency = TRUE
    /\ pc = "start"
    /\ p_rtp = NewRtpCtx(<<0, 0, 0, 0>>)
    /\ prior_calls = 0
    /\ udp = UdpIdle
    /\ enc = EncIdle

\* the k-th unit of the scenario (k = n_enq + 1): one packet, one reference
ScenarioUnit ==
    [data |-> <<next_id>>,
     len |-> TsPacketSize,
     pcr_list |-> <<ScenarioFirstPcr + n_enq * ScenarioPcrGap>>]

\* a producer appends a one-packet unit under output_mutex and signals
EnqueueOnePacket ==
    /\ n_enq < MaxScenarioUnits
    /\ output_mutex = "free"
    /\ LET u == ScenarioUnit
       IN  /\ h_muxed_data' = Append(h_muxed_data, u)
           /\ enq_log' = Append(enq_log, <<u.data[1], u.pcr_list[1]>>)
           /\ last_enq_pcr' = u.pcr_list[1]
    /\ next_id' = next_id + 1
    /\ cv_signal' = (cv_signal \/ pc = "wait")
    /\ n_enq' = n_enq + 1
    /\ UNCHANGED <<output_drop, output_mutex, config, locals, session, clock,
                   cancel_req, n_drops, n_ticks, sent_log, slept, exit_cause,
                   handler_runs, n_removed, n_sleeps, drop_note>>

NextScenario ==
    \/ AllocFifos \/ RtpOpen
    \/ LockOutput \/ SpuriousWake \/ CondWake \/ Snapshot
    \/ RefillUnit \/ RefillDone
    \/ ReadBlock \/ SendLoopExit \/ Sleep \/ SendOk \/ SendFail
    \/ EnqueueOnePacket \/ Tick

SpecScenario == InitScenario /\ [][NextScenario]_vars

\* ------------------------------------------------ udp_open --------------
\* everything but the call of udp_open
pacer_vars == <<h_muxed_data, output_drop, output_mutex, cv_signal, low_latency,
                prior_calls, enc, locals, session, env, history>>

\* the first failed step is remembered
NoteFailure(u, step) == IF u.failed = "none" THEN [u EXCEPT !.failed = step] ELSE u

\* lines 326-331, label fail: close the descriptor if udp_fd >= 0, free the
\* context, return -1
UdpFail(u, step) ==
    [NoteFailure(u, step) EXCEPT
        !.pc = "done",
        !.fds = IF u.udp_fd >= 0 THEN @ \ {u.udp_fd} ELSE @,
        !.mem = Free(@),
        !.ret = -1]

\* one call of udp_open on a uri of Uris
InitUdp ==
    /\ InitCommon
    /\ low_latency = TRUE
    /\ pc = "udp"
    /\ p_rtp = NewRtpCtx(<<0, 0, 0, 0>>)
    /\ prior_calls = 0
    /\ \E uri \in Uris : udp = UdpCall(uri)
    /\ enc = EncIdle

\* lines 245-279: calloc, *p_handle = NULL, the options parsed
UdpCalloc ==
    /\ udp.pc = "calloc"
    /\ \E ok \in BOOLEAN :
          udp' = IF ~ok
                    THEN [NoteFailure(udp, "calloc") EXCEPT
                             !.pc = "done", !.handle = "NULL", !.ret = -1]
                    ELSE [udp EXCEPT
                             !.pc = "resolve",
                             !.mem = "live",
                             !.handle = "NULL",
                             !.s.reuse_socket = ReuseParsed(udp.uri.reuse),
                             !.reuse_specified = IF udp.uri.reuse.given THEN 1 ELSE 0,
                             !.s.is_connected = ConnectParsed(udp.uri.connect)]
    /\ UNCHANGED pacer_vars

\* lines 216-229: connect() is called in udp_set_remote_url when the option
\* turns is_connected on; was_connected is the value udp_open parsed from
\* the same option at line 275
EarlyConnect(ctx, opt) ==
    opt.given /\ Strtol(opt.val).val # 0 /\ ctx.is_connected = 0

\* lines 284-285 with udp_set_remote_url (199-233): the destination resolved
UdpSetRemoteUrl ==
    /\ udp.pc = "resolve"
    /\ \E ok \in BOOLEAN :
          udp' = IF ~ok \/ EarlyConnect(udp.s, udp.uri.connect)
                    THEN UdpFail(udp, "resolve")
                    ELSE [udp EXCEPT
                             !.pc = "socket",
                             !.s.dest_set = TRUE,
                             !.s.is_multicast =
                                 IF is_multicast_address(udp.uri.dest) THEN 1 ELSE 0,
                             !.s.is_connected = ConnectParsed(udp.uri.connect)]
    /\ UNCHANGED pacer_vars

\* lines 145-151: socket() per entry of the address list until a descriptor
\* above 0 is returned; the descriptor held, the descriptors open, and
\* whether the list was left before its end
RECURSIVE SocketLoop(_, _, _)
SocketLoop(results, fd, open) ==
    IF results = << >> THEN [udp_fd |-> fd, fds |-> open, res |-> FALSE]
    ELSE LET r == Head(results)
             o == IF r >= 0 THEN open \cup {r} ELSE open
         IN  IF r > 0 THEN [udp_fd |-> r, fds |-> o, res |-> TRUE]
             ELSE SocketLoop(Tail(results), r, o)

\* lines 287-289 with udp_socket_create (134-169).  When the list ends with
\* udp_fd = 0 the memcpy at line 156 reads through the null res: the call
\* does not return.
UdpSocketCreate ==
    /\ udp.pc = "socket"
    /\ \E local_ok \in BOOLEAN, results \in SocketResults :
          LET l == SocketLoop(results, -1, udp.fds)
          IN  udp' = IF ~local_ok THEN UdpFail(udp, "socket")
                     ELSE IF l.udp_fd < 0
                        THEN UdpFail([udp EXCEPT !.fds = l.fds], "socket")
                     ELSE IF ~l.res
                        THEN [udp EXCEPT !.pc = "crashed", !.fds = l.fds]
                     ELSE [udp EXCEPT !.pc = "reuse", !.udp_fd = l.udp_fd, !.fds = l.fds]
    /\ UNCHANGED pacer_vars

\* lines 294-299: SO_REUSEADDR
UdpReuse ==
    /\ udp.pc = "reuse"
    /\ IF ReuseWanted(udp.s, udp.reuse_specified)
          THEN \E ok \in BOOLEAN :
                  udp' = IF ok
                            THEN [udp EXCEPT !.pc = "bind", !.s.reuse_socket = 1,
                                             !.so_reuse = TRUE]
                            ELSE UdpFail([udp EXCEPT !.s.reuse_socket = 1], "reuse")
          ELSE udp' = [udp EXCEPT !.pc = "bind"]
    /\ UNCHANGED pacer_vars

\* lines 303-304: bind (bind_ret is -1, so bind is always called)
UdpBind ==
    /\ udp.pc = "bind"
    /\ \E ok \in BOOLEAN :
          udp' = IF ok THEN [udp EXCEPT !.pc = "port"] ELSE UdpFail(udp, "bind")
    /\ UNCHANGED pacer_vars

\* lines 306-308: getsockname (result not tested) and udp_port, whose -1 on
\* failure is stored in local_port; the next step follows in either case
UdpReadPort ==
    /\ udp.pc = "port"
    /\ \E ok \in BOOLEAN :
          udp' = IF ok THEN [udp EXCEPT !.pc = "mcast", !.s.local_port = 5004]
                 ELSE [NoteFailure(udp, "port") EXCEPT
                          !.pc = "mcast", !.s.local_port = -1]
    /\ UNCHANGED pacer_vars

\* lines 311-312 with udp_set_multicast_opts (45-89)
UdpMulticastOpts ==
    /\ udp.pc = "mcast"
    /\ IF udp.s.is_multicast # 0
          THEN \E ok \in BOOLEAN :
                  udp' = IF ok THEN [udp EXCEPT !.pc = "sndbuf"]
                         ELSE UdpFail(udp, "mcast")
          ELSE udp' = [udp EXCEPT !.pc = "sndbuf"]
    /\ UNCHANGED pacer_vars

\* lines 315-317: SO_SNDBUF
UdpSndBuf ==
    /\ udp.pc = "sndbuf"
    /\ \E ok \in BOOLEAN :
          udp' = IF ok THEN [udp EXCEPT !.pc = "connect"] ELSE UdpFail(udp, "sndbuf")
    /\ UNCHANGED pacer_vars

\* lines 319-324: connect when requested, then the handle is handed out
UdpConnect ==
    /\ udp.pc = "connect"
    /\ \E ok \in BOOLEAN :
          udp' = IF udp.s.is_connected # 0 /\ ~ok
                    THEN UdpFail(udp, "connect")
                    ELSE [udp EXCEPT
                             !.pc = "done", !.s.udp_fd = udp.udp_fd,
                             !.handle = "s", !.ret = 0]
    /\ UNCHANGED pacer_vars

NextUdp ==
    \/ UdpCalloc \/ UdpSetRemoteUrl \/ UdpSocketCreate \/ UdpReuse \/ UdpBind
    \/ UdpReadPort \/ UdpMulticastOpts \/ UdpSndBuf \/ UdpConnect

SpecUdp == InitUdp /\ [][NextUdp]_vars

\* ------------------------------------------------ repeated drop signals -
\* The output thread with every failure path, and producers that raise the
\* drop signal more than once, also while the flag is still set.
SignalDropRepeated == RaiseDrop(MaxDropSignals)

NextDrops ==
    \/ AllocFifos \/ AllocFifosFail \/ RtpOpen \/ RtpOpenFail
    \/ LockOutput \/ SpuriousWake \/ CondWake \/ FillWait \/ Snapshot \/ SnapshotFail
    \/ RefillUnit \/ RefillFail \/ RefillDone
    \/ ReadBlock \/ SendLoopExit \/ Sleep \/ SendOk \/ SendFail
    \/ Enqueue \/ SignalDropRepeated

SpecDrops == Init /\ [][NextDrops]_vars

\* ------------------------------------------------ start_encoder ---------
\* everything but the encoder thread
enc_frame == <<h_muxed_data, output_drop, output_mutex, cv_signal, low_latency,
               prior_calls, udp, locals, session, env, history>>

\* what frames[0] yields when the queue is empty
StaleFrame == -1

\* one run of start_encoder against its producers
InitEnc ==
    /\ InitCommon
    /\ low_latency = TRUE
    /\ pc = "enc"
    /\ p_rtp = NewRtpCtx(<<0, 0, 0, 0>>)
    /\ prior_calls = 0
    /\ udp = UdpIdle
    /\ enc = EncStart

\* goto end / break: the frame in hand and the exit cause are kept
EncLeave(e, cause) == [e EXCEPT !.pc = "end", !.exit = cause]

\* lines 48-74: under encoder_mutex the codec is set up, is_ready is set and
\* encoder_cv broadcast; twolame_init may fail
EncInit ==
    /\ enc.pc = "init"
    /\ \E ok \in BOOLEAN :
          enc' = IF ok THEN [enc EXCEPT !.pc = "alloc", !.res.tl_opts = "live"]
                 ELSE EncLeave(enc, "twolame_init")
    /\ UNCHANGED enc_frame

\* lines 76-99: output_buf, audio_conv and the output FIFO are allocated in
\* this order; the first failure goes to end
EncAlloc ==
    /\ enc.pc = "alloc"
    /\ \E got \in 0..3 :
          LET e == [enc EXCEPT
                      !.res.output_buf = IF got >= 1 THEN "live" ELSE @,
                      !.res.audio_conv = IF got >= 2 THEN "live" ELSE @,
                      !.res.fifo = IF got >= 3 THEN "live" ELSE @]
          IN  enc' = IF got = 3 THEN [e EXCEPT !.pc = "lock"] ELSE EncLeave(e, "alloc")
    /\ UNCHANGED enc_frame

\* lines 114-121: after the wait (or without one) cancel_thread is tested;
\* otherwise frames[0] is read, whatever num_raw_frames is.  With an empty
\* queue the read is of a slot the queue does not hold: the thread goes on
\* with a stale pointer (continue = TRUE) or faults on its use.
EncReadFrame(e, continue) ==
    IF e.cancel_thread
        THEN [EncLeave(e, "cancel") EXCEPT !.saw_cancel = TRUE]
    ELSE IF e.num_raw_frames > 0
        THEN [e EXCEPT !.raw_frame = e.frames[1],
                       !.count_at_read = e.num_raw_frames,
                       !.pc = "encode"]
    ELSE [e EXCEPT !.raw_frame = StaleFrame,
                   !.count_at_read = e.num_raw_frames,
                   !.pc = IF continue THEN "encode" ELSE "crashed"]

\* lines 103-121: lock; leave if cancelled; with an empty queue wait on
\* encoder_cv (the wait releases the mutex), else read frames[0] and unlock
EncLock ==
    /\ enc.pc = "lock"
    /\ enc' = IF ~enc.cancel_thread /\ enc.num_raw_frames = 0
                 THEN [enc EXCEPT !.pc = "wait", !.cv = FALSE]
                 ELSE EncReadFrame(enc, TRUE)
    /\ UNCHANGED enc_frame

\* line 112 returns on a producer's signal or broadcast; lines 114-121
EncWake ==
    /\ enc.pc = "wait"
    /\ enc.cv
    /\ \E continue \in BOOLEAN : enc' = EncReadFrame([enc EXCEPT !.cv = FALSE], continue)
    /\ UNCHANGED enc_frame

\* line 112 returns though no frame was queued and no cancel requested: a
\* spurious wakeup, which POSIX allows, or a broadcast on encoder_cv meant
\* for another waiter; lines 114-121 follow (an "if", not a loop, guards
\* the wait)
EncSpuriousWake ==
    /\ enc.pc = "wait"
    /\ ~enc.cv
    /\ \E continue \in BOOLEAN : enc' = EncReadFrame(enc, continue)
    /\ UNCHANGED enc_frame

\* lines 123-156: the samples are converted and encoded; malloc or the
\* conversion may fail (goto end), or the encoder (break)
EncEncode ==
    /\ enc.pc = "encode"
    /\ \E outcome \in {"ok", "malloc", "convert", "encode"} :
          enc' = CASE outcome = "ok" -> [enc EXCEPT !.pc = "remove"]
                   [] outcome = "malloc" -> EncLeave(enc, "malloc")
                   [] OTHER -> [EncLeave(enc, outcome) EXCEPT !.res.audio_buf = "live"]
    /\ UNCHANGED enc_frame

\* lines 158-160: the frame is released and the head of the encode queue
\* removed.  After a read from an empty queue there is nothing to release
\* or remove; the step then ends the thread in a fault.
EncRemove ==
    /\ enc.pc = "remove"
    /\ enc' = IF enc.num_raw_frames > 0
                 THEN [enc EXCEPT !.frames = Tail(@),
                                  !.num_raw_frames = @ - 1,
                                  !.raw_frame = 0,
                                  !.n_done = @ + 1,
                                  !.pc = "emit"]
                 ELSE [enc EXCEPT !.pc = "crashed"]
    /\ UNCHANGED enc_frame

\* lines 162-185: the coded bytes go through the FIFO to the mux queue;
\* av_fifo_realloc2 (break) or new_coded_frame (goto end) may fail
EncEmit ==
    /\ enc.pc = "emit"
    /\ \E outcome \in {"ok", "realloc", "coded_frame"} :
          enc' = IF outcome = "ok" THEN [enc EXCEPT !.pc = "lock"]
                 ELSE EncLeave(enc, outcome)
    /\ UNCHANGED enc_frame

\* the release of one block at label end
EncFree(r) == IF r = "live" THEN "freed" ELSE r

\* lines 188-205: whatever was allocated is released, enc_params freed
EncEnd ==
    /\ enc.pc = "end"
    /\ enc' = [enc EXCEPT !.pc = "done",
                          !.res = [k \in DOMAIN enc.res |-> EncFree(enc.res[k])]]
    /\ UNCHANGED enc_frame

\* a producer appends a raw frame under encoder_mutex and broadcasts
\* encoder_cv
EncAddFrame ==
    /\ enc.pc \notin {"idle", "done", "crashed"}
    /\ enc.n_added < MaxFrames
    /\ enc' = [enc EXCEPT !.frames = Append(@, enc.n_added + 1),
                          !.num_raw_frames = @ + 1,
                          !.n_added = @ + 1,
                          !.cv = @ \/ enc.pc = "wait"]
    /\ UNCHANGED enc_frame

\* the cancel request: cancel_thread set under encoder_mutex, encoder_cv
\* signalled
EncCancel ==
    /\ enc.pc \notin {"idle", "done", "crashed"}
    /\ ~enc.cancel_thread
    /\ enc' = [enc EXCEPT !.cancel_thread = TRUE, !.cv = @ \/ enc.pc = "wait"]
    /\ UNCHANGED enc_frame

NextEnc ==
    \/ EncInit \/ EncAlloc \/ EncLock \/ EncWake \/ EncSpuriousWake
    \/ EncEncode \/ EncRemove \/ EncEmit \/ EncEnd
    \/ EncAddFrame \/ EncCancel

SpecEnc == InitEnc /\ [][NextEnc]_vars

\* ------------------------------------------------ reading the wire ------
\* the 16-bit sequence number of a header, big-endian
HdrSeq(hdr) == hdr[3] * 256 + hdr[4]

\* the other fields of a 12-byte RTP header
HdrVersion(hdr) == hdr[1] \div 64

HdrPayloadType(hdr) == hdr[2] % 128

HdrTimestamp(hdr) == SubSeq(hdr, 5, 8)

HdrSsrc(hdr) == SubSeq(hdr, 9, 12)

\* packets ids in enqueue order
EnqueuedIds == [k \in 1..Len(enq_log) |-> enq_log[k][1]]

\* the clock reference paired with a packet id at enqueue time
PcrAtEnqueue(id) == enq_log[CHOOSE k \in 1..Len(enq_log) : enq_log[k][1] = id][2]

\* the payload blocks handed to write_rtp_pkt so far, concatenated
SentIds == Flatten([k \in 1..Len(sent_log) |-> sent_log[k].payload])

\* the output thread is inside its loop (it neither returned nor was cancelled)
Running == pc \notin {"start", "rtp_open", "returned", "cancelled"}

\* ------------------------------------------------ claims ----------------
\* C1: while the pacer runs, after every refill of one unit and after every
\* paired read, the number of clock references in fifo_pcr times 188 equals
\* the number of bytes in fifo_data.
C1_FifoLockstep ==
    Running =>
        (PcrFifoSize(fifo_pcr) \div SizeofInt64) * TsPacketSize = DataFifoSize(fifo_data)

\* C1 witness: a block was read after an earlier send and whole packets of a
\* later unit are still buffered.
C1_Witness ==
    /\ pc = "send"
    /\ Len(sent_log) >= 1
    /\ Len(fifo_data) > 0
    /\ Len(fifo_pcr) > 0

\* C2: the concatenation of the payload blocks handed to write_rtp_pkt is a
\* prefix of the concatenation of the enqueued payloads, in enqueue order.
C2_DeliveredInOrder == IsPrefix(SentIds, EnqueuedIds)

\* C2 witness: two blocks were sent out of three units of 3, 7 and 7 packets
\* (each block spans two units) and three packets are still buffered.
C2_Witness ==
    /\ Len(sent_log) = 2
    /\ Len(enq_log) = 2 * NumPcrs + 3
    /\ Len(fifo_data) = 3
    /\ sent_log[2].ok

\* C3: every call of write_rtp_pkt passes the clock reference that was paired
\* at enqueue time with the first transport packet of the block, and the
\* entries of the two FIFOs at the same position belong together.
C3_TimestampPaired ==
    /\ \A k \in 1..Len(sent_log) :
          /\ sent_log[k].pcr = PcrAtEnqueue(sent_log[k].payload[1])
          /\ sent_log[k].ts = Int64Bytes(PcrAtEnqueue(sent_log[k].payload[1]))
    /\ Running =>
          /\ Len(fifo_pcr) = Len(fifo_data)
          /\ \A j \in 1..Len(fifo_data) : fifo_pcr[j] = PcrAtEnqueue(fifo_data[j])

\* C3 witness: a second block, whose first packet is the 8th enqueued, was
\* sent with that packet's clock reference while data is still buffered.
C3_Witness ==
    /\ Len(sent_log) >= 2
    /\ sent_log[2].payload[1] = NumPcrs + 1
    /\ sent_log[2].pcr = (NumPcrs + 1) * PcrStep
    /\ Len(fifo_data) > 0

\* C4: the sequence numbers in the headers of consecutive write_rtp_pkt calls
\* are start, start+1, ... modulo 65536, start being 0 after rtp_open.
C4_SeqGapFree ==
    /\ \A k \in 1..Len(sent_log) :
          HdrSeq(sent_log[k].hdr) = (prior_calls + k - 1) % SeqModulus
    /\ \A k \in 1..(Len(sent_log) - 1) :
          HdrSeq(sent_log[k + 1].hdr) = (HdrSeq(sent_log[k].hdr) + 1) % SeqModulus
    /\ (pc = "api" /\ prior_calls = 0 /\ sent_log = << >>) => p_rtp.seq = 0

\* C4 witness: a failed call carried 65535 and the next call carried 0.
C4_Witness ==
    \E k \in 1..(Len(sent_log) - 1) :
        /\ HdrSeq(sent_log[k].hdr) = SeqModulus - 1
        /\ ~sent_log[k].ok
        /\ HdrSeq(sent_log[k + 1].hdr) = 0

\* calls of write_rtp_pkt on the session, and those whose udp_write succeeded
Attempts == prior_calls + Len(sent_log)

Successes == prior_calls + Cardinality({k \in 1..Len(sent_log) : sent_log[k].ok})

\* C5: a failed udp_write makes write_rtp_pkt return -1 with seq advanced by
\* one and pkt_cnt, octet_cnt, ssrc unchanged; a successful one adds 1 to
\* pkt_cnt and the payload length to octet_cnt.  At all times seq is the
\* number of attempts mod 65536 and pkt_cnt the number of successful sends.
C5_CountersFollowSends ==
    /\ [](/\ p_rtp.seq = Attempts % SeqModulus
          /\ p_rtp.pkt_cnt = Successes
          /\ p_rtp.octet_cnt = Successes * TS_PACKETS_SIZE)
    /\ [][Len(sent_log') = Len(sent_log) + 1 =>
            LET r == sent_log'[Len(sent_log')]
            IN  /\ p_rtp'.seq = (p_rtp.seq + 1) % SeqModulus
                /\ p_rtp'.ssrc = p_rtp.ssrc
                /\ r.ret = (IF r.ok THEN 0 ELSE -1)
                /\ p_rtp'.pkt_cnt = p_rtp.pkt_cnt + (IF r.ok THEN 1 ELSE 0)
                /\ p_rtp'.octet_cnt = p_rtp.octet_cnt + (IF r.ok THEN TS_PACKETS_SIZE ELSE 0)]_vars

\* C5 witness: a failed call was followed by a successful one.
C5_Witness ==
    \E j, k \in 1..Len(sent_log) : j < k /\ ~sent_log[j].ok /\ sent_log[k].ok

\* C6: when write_rtp_pkt fails on the k-th packet the pacer attempts, the
\* thread stops: no further send attempt, sleep or queue drain, and exactly
\* k-1 packets were sent successfully.
C6_StopsOnSendFailure ==
    /\ [](\A k \in 1..Len(sent_log) :
            ~sent_log[k].ok =>
                /\ k = Len(sent_log)
                /\ pc = "returned"
                /\ exit_cause = "send"
                /\ \A j \in 1..(k - 1) : sent_log[j].ok
                /\ p_rtp.pkt_cnt = k - 1)
    /\ [][exit_cause = "send" =>
            /\ pc' = "returned"
            /\ sent_log' = sent_log
            /\ n_sleeps' = n_sleeps
            /\ n_removed' = n_removed
            /\ fifo_data' = fifo_data
            /\ fifo_pcr' = fifo_pcr
            /\ p_rtp' = p_rtp]_vars

\* C6 witness: the second send of a batch of three blocks failed, one was
\* sent, one block is still buffered, and a unit arrived after the stop.
C6_Witness ==
    /\ exit_cause = "send"
    /\ Len(sent_log) = 2
    /\ sent_log[1].ok
    /\ p_rtp.pkt_cnt = 1
    /\ Len(fifo_data) >= NumPcrs

\* C7 (as claimed): whenever the thread ends because of a failure of
\* rtp_open/udp_open, of an allocation while refilling, or of a send, the
\* socket (if opened) is closed and both FIFOs and the RTP session state are
\* freed once open_output has returned.
C7_FailureReleasesAll ==
    (pc = "returned" /\ exit_cause \in {"rtp_calloc", "udp_open", "malloc", "realloc", "send"})
        => /\ res.udp # "live"
           /\ res.fifo_data = "freed"
           /\ res.fifo_pcr = "freed"
           /\ res.p_rtp # "live"

\* C8: a cancellation at the condition wait or at the deadline sleep runs
\* close_output exactly once; the socket, both FIFOs, the session state and
\* the output parameters are each released once, nothing is released twice
\* and nothing the thread allocated stays allocated.  (The state of
\* output_mutex after the cancellation is a separate matter, see C23.)
C8_CancelReleasesOnce ==
    pc = "cancelled" =>
        /\ exit_cause \in {"cancel_wait", "cancel_sleep"}
        /\ handler_runs = 1
        /\ res.udp = "freed"
        /\ res.p_rtp = "freed"
        /\ res.fifo_data = "freed"
        /\ res.fifo_pcr = "freed"
        /\ res.output_params = "freed"
        /\ res.muxed_arr = "none"

\* C8 witness: cancelled in the deadline sleep before the second send, with
\* a block read and data still buffered.
C8_Witness ==
    /\ pc = "cancelled"
    /\ exit_cause = "cancel_sleep"
    /\ handler_runs = 1
    /\ Len(fifo_data) > 0
    /\ Len(sent_log) >= 1

\* a send that takes the baseline: no sleep before it, start_pcr_time is the
\* packet's clock reference and start_mpeg_time the clock read at the send
TakesBaseline(r) ==
    /\ ~r.slept
    /\ r.rebased
    /\ r.pcr_base = r.pcr
    /\ r.mpeg_base = r.clock

\* C9 (as claimed): after a drop signal raised at any point of the pacer's
\* execution, the next packet delivered (the next block read from the FIFOs
\* after the signal) is sent without a deadline sleep and re-establishes the
\* baseline.
C9_RebaseAfterSignal ==
    \A k \in 1..Len(sent_log) : sent_log[k].after_signal => TakesBaseline(sent_log[k])

\* C9 (amended): after the pacer has observed the drop flag (tested and
\* cleared it in its locked section), the next packet delivered is sent
\* without a deadline sleep and re-establishes the baseline.
C9_RebaseAfterObservedDrop ==
    /\ \A k \in 1..Len(sent_log) : sent_log[k].after_drop => TakesBaseline(sent_log[k])
    /\ (drop_note.seen /\ Running) => last_clock = NoClock

\* C9 witness: a packet sent after an observed drop took a new baseline that
\* differs from the one the first packet had taken.
C9_Witness ==
    \E k \in 2..Len(sent_log) :
        /\ sent_log[k].after_drop
        /\ sent_log[k].rebased
        /\ sent_log[k].mpeg_base # sent_log[1].mpeg_base
        /\ start_pcr_time = sent_log[k].pcr

\* the send that took the baseline in force at the k-th send
BaselineOf(k) ==
    CHOOSE j \in 1..k : sent_log[j].rebased /\ \A i \in (j + 1)..k : ~sent_log[i].rebased

\* C10: a packet sent while a baseline exists is preceded by a sleep whose
\* target is start_mpeg_time + (clockref - start_pcr_time) for the baseline
\* of the most recent rebaseline; the packet that establishes the baseline
\* (the first after start or after an observed drop) is sent with no sleep.
C10_DeadlineFromBaseline ==
    \A k \in 1..Len(sent_log) :
        LET r == sent_log[k]
        IN  /\ r.rebased <=> (k = 1 \/ r.after_drop)
            /\ IF r.rebased
                  THEN ~r.slept
                  ELSE /\ r.slept
                       /\ r.target = sent_log[BaselineOf(k)].clock
                                     + (r.pcr - sent_log[BaselineOf(k)].pcr)

\* C10 witness: the third packet after a baseline taken at a clock reading
\* above 0 slept until baseline + (its clock reference - the first one's).
C10_Witness ==
    /\ Len(sent_log) = 3
    /\ sent_log[1].clock > 0
    /\ ~sent_log[2].rebased
    /\ sent_log[3].slept
    /\ sent_log[3].target = sent_log[1].clock + 2 * NumPcrs * PcrStep

\* the clock reference of the k-th unit of the single-packet scenario
ScenarioPcr(k) == ScenarioFirstPcr + (k - 1) * ScenarioPcrGap

\* C11 (as claimed): with a fill threshold of 0, no drop signal and units of
\* exactly one transport-stream packet with clock references c1 <= c2 <= ...,
\* every packet is sent as its own packet with its own clock reference: the
\* first as soon as it was taken from the queue and without a sleep, the k-th
\* after a sleep until baseline + (ck - c1).
C11_EachPacketOwnSend ==
    /\ \A k \in 1..Len(sent_log) :
          /\ sent_log[k].payload = <<k>>
          /\ sent_log[k].pcr = ScenarioPcr(k)
          /\ IF k = 1
                THEN ~sent_log[k].slept
                ELSE /\ sent_log[k].slept
                     /\ sent_log[k].target
                          = sent_log[1].clock + (ScenarioPcr(k) - ScenarioPcr(1))
    /\ (pc = "lock" /\ n_removed >= 1) => Len(sent_log) >= 1

\* C11 (amended): in that scenario the payload leaves in blocks of
\* TS_PACKETS_SIZE bytes, i.e. NumPcrs packets in enqueue order per datagram,
\* each block with the clock reference of its first packet; nothing is sent
\* for packets that do not yet fill a block; the first block is sent without
\* a sleep and takes the baseline, the k-th after a sleep until
\* baseline + (c[NumPcrs*(k-1)+1] - c1).
C11_BlockPacing ==
    /\ Len(sent_log) * NumPcrs + Len(rtp_buf) * (IF pc \in {"sleep", "send"} THEN 1 ELSE 0)
          + Len(fifo_data) = n_removed
    /\ pc = "lock" => Len(fifo_data) < NumPcrs
    /\ \A k \in 1..Len(sent_log) :
          LET first == NumPcrs * (k - 1) + 1
          IN  /\ sent_log[k].payload = [j \in 1..NumPcrs |-> first + j - 1]
              /\ sent_log[k].pcr = ScenarioPcr(first)
              /\ IF k = 1
                    THEN ~sent_log[k].slept /\ TakesBaseline(sent_log[k])
                    ELSE /\ sent_log[k].slept
                         /\ sent_log[k].target
                              = sent_log[1].clock + (ScenarioPcr(first) - ScenarioPcr(1))
                         /\ sent_log[k].clock >= sent_log[k].target

\* C11 witness: the second block was sent after a sleep that ended
\* NumPcrs * ScenarioPcrGap ticks after the first send, with a 15th packet
\* still buffered.
C11_Witness ==
    /\ Len(sent_log) = 2
    /\ sent_log[2].slept
    /\ sent_log[2].clock = sent_log[1].clock + NumPcrs * ScenarioPcrGap
    /\ Len(fifo_data) = 1

\* the payload of the units in the shared output queue, oldest first
QueuedIds == Flatten([k \in 1..Len(h_muxed_data) |-> h_muxed_data[k].data])

\* the block read from the FIFOs and not yet handed to write_rtp_pkt
BlockInHand == IF pc \in {"sleep", "send"} THEN rtp_buf ELSE << >>

\* C12: the step that observes the drop flag clears output_drop and resets
\* last_clock (and ready, up to the fill test that follows) but leaves
\* fifo_data, fifo_pcr and the shared output queue as they were; and while
\* the pacer runs, every packet enqueued is, in enqueue order, handed to
\* write_rtp_pkt, in the block just read, in the payload FIFO, or queued.
C12_DropKeepsPayload ==
    /\ [](Running => EnqueuedIds = SentIds \o BlockInHand \o fifo_data \o QueuedIds)
    /\ [][(output_drop /\ ~output_drop') =>
            /\ fifo_data' = fifo_data
            /\ fifo_pcr' = fifo_pcr
            /\ h_muxed_data' = h_muxed_data
            /\ sent_log' = sent_log
            /\ n_removed' = n_removed
            /\ last_clock' = NoClock
            /\ ready' = ReadyAfterFill(0, Len(h_muxed_data), buffer_frames)]_vars

\* C12 witness: after a send, the drop flag was observed with packets in
\* the payload FIFO and a unit in the queue, all of them still there.
C12_Witness ==
    /\ drop_note.seen
    /\ pc = "refill"
    /\ idx = 0
    /\ Len(sent_log) >= 1
    /\ Len(fifo_data) > 0
    /\ Len(h_muxed_data) > 0

\* C13 (as claimed): once a step of udp_open has failed, the call returns -1
\* with *p_handle NULL, no descriptor left open and the context freed; it
\* never returns success after a failed step.
C13_AnyFailureFailsOpen ==
    udp.failed # "none" =>
        /\ udp.pc = "done"
        /\ udp.ret = -1
        /\ udp.handle = "NULL"
        /\ udp.fds = {}
        /\ udp.mem \in {"none", "freed"}

\* the reuse options that ask for address reuse: a value other than 0, or
\* no numeric value at all
ReuseAsked == {Opt(<< >>), Opt(<<"1">>), Opt(<<"2", "5">>), Opt(<<"o", "n">>)}

\* the destinations that are multicast groups
MulticastDests == {[family |-> "AF_INET", addr |-> <<239, 0, 0, 1>>],
                   [family |-> "AF_INET6", addr |-> <<255, 2>>]}

\* C14: after a successful udp_open, SO_REUSEADDR is set on the socket (and
\* reuse_socket is 1) exactly when the reuse option asked for it, or was not
\* given and the destination is multicast; otherwise it is not set and
\* reuse_socket is 0.
C14_ReuseDefault ==
    (udp.pc = "done" /\ udp.ret = 0) =>
        LET on == \/ udp.uri.reuse \in ReuseAsked
                  \/ (udp.uri.reuse = NoOpt /\ udp.uri.dest \in MulticastDests)
        IN  /\ udp.so_reuse <=> on
            /\ udp.s.reuse_socket = (IF on THEN 1 ELSE 0)

\* C14 witness: reuse=0 on a multicast destination opened without reuse.
C14_Witness ==
    /\ udp.pc = "done"
    /\ udp.ret = 0
    /\ udp.uri.reuse = Opt(<<"0">>)
    /\ udp.uri.dest \in MulticastDests
    /\ ~udp.so_reuse

\* an int64 kept as 8 big-endian bytes, modulo 2^32: its 4 low-order bytes
Mod2Pow32(bytes) == SubSeq(bytes, 5, 8)

\* parsing the datagram of a call recovers what went in
RoundTrip(r) ==
    /\ Len(r.hdr) = RTP_HEADER_SIZE
    /\ HdrVersion(r.hdr) = 2
    /\ HdrPayloadType(r.hdr) = 33
    /\ HdrTimestamp(r.hdr) = Mod2Pow32(r.ts)
    /\ HdrSsrc(r.hdr) = r.ssrc
    /\ r.size = RTP_HEADER_SIZE + r.len
    /\ r.payload = r.data

SessionOpen == pc \notin {"start", "rtp_open", "api_closed"}

\* C16: every header write_rtp_pkt emits carries the session identifier of
\* the context, and once rtp_open has returned no step changes it, whether
\* sends succeed or fail and whether drop signals arrive.
C16_SsrcFixed ==
    /\ [](\A k \in 1..Len(sent_log) : HdrSsrc(sent_log[k].hdr) = p_rtp.ssrc)
    /\ [][SessionOpen => p_rtp'.ssrc = p_rtp.ssrc]_vars

\* C16 witness: with the identifier 0xdeadbeef, a packet sent after an
\* observed drop followed an earlier one, and the last send failed.
C16_Witness ==
    /\ p_rtp.ssrc = <<222, 173, 190, 239>>
    /\ Len(sent_log) >= 3
    /\ \E k \in 2..Len(sent_log) : sent_log[k].after_drop
    /\ ~sent_log[Len(sent_log)].ok

\* the pacer is blocked in pthread_cond_wait and no producer has signalled
\* since it entered the wait
BlockedInWait == pc = "wait" /\ ~cv_signal

\* C17 (as claimed, for the pacer past its fill phase): the pacer is never
\* blocked in pthread_cond_wait while units that arrived after its previous
\* drain sit undrained in the shared output queue.
C17_NoWaitWithUndrained ==
    (BlockedInWait /\ ready = 1) => h_muxed_data = << >>

\* the producers have enqueued at least the fill threshold
ThresholdReached == n_enq >= (IF low_latency THEN 0 ELSE DefaultBufferFrames)

\* every unit enqueued was taken from the queue and every complete payload
\* block was handed to write_rtp_pkt
AllDelivered ==
    /\ n_removed = n_enq
    /\ h_muxed_data = << >>
    /\ pc \notin {"sleep", "send"}
    /\ DataFifoSize(fifo_data) < TS_PACKETS_SIZE
    /\ Len(sent_log) = Len(enq_log) \div NumPcrs

\* C18 (as claimed): with a fair pacer, no failures, no cancellation and
\* producers that stop after finitely many units (at least the fill
\* threshold), from some point on every enqueued unit has been removed from
\* the queue and every complete block sent: the pacer does not stay blocked
\* with units queued.
C18_EveryUnitDelivered == <>[](ThresholdReached => AllDelivered)

\* the fill threshold: 0 in low-latency mode, 2 otherwise
FillThreshold == IF low_latency THEN 0 ELSE DefaultBufferFrames

\* the step tests and clears a drop flag that was set
ObservesDrop == output_drop /\ ~output_drop' /\ pc = "locked"

\* C19: units are removed, blocks read and packets sent only while ready;
\* a pacer that is not ready becomes ready only at a look that finds at
\* least the fill threshold of units queued, and does so at every such
\* look; a ready pacer stops being ready only on observing the drop flag.
C19_FillThreshold ==
    /\ []((pc \in {"refill", "send_loop", "sleep", "send"}) => ready = 1)
    /\ [](Running => buffer_frames = FillThreshold)
    /\ [][/\ (ready = 0 /\ ~ObservesDrop) =>
               /\ n_removed' = n_removed
               /\ sent_log' = sent_log
               /\ fifo_data' = fifo_data
          /\ (ready = 0 /\ ready' = 1) =>
               (pc = "locked" /\ Len(h_muxed_data) >= FillThreshold)
          /\ (ready = 0 /\ pc = "locked" /\ pc' # "locked"
                /\ Len(h_muxed_data) >= FillThreshold) => ready' = 1
          /\ (ready = 0 /\ pc = "locked" /\ pc' # "locked"
                /\ Len(h_muxed_data) < FillThreshold) =>
               (ready' = 0 /\ pc' = "lock" /\ h_muxed_data' = h_muxed_data)
          /\ (ready = 1 /\ ready' = 0) => ObservesDrop]_vars

\* C19 witness: at start, not in low-latency mode, the pacer looked at a
\* queue of one unit, took nothing and went back to wait.
C19_Witness ==
    /\ ~low_latency
    /\ ready = 0
    /\ pc = "wait"
    /\ num_muxed_data = 1
    /\ Len(h_muxed_data) = 1
    /\ n_removed = 0
    /\ sent_log = << >>

\* C20 (as claimed): a pacer that observes the drop flag while STREAMING is
\* STREAMING again in that same iteration, whatever the number of units
\* queued: it goes on to drain the queue without re-accumulating the fill
\* threshold.
C20_StreamingRightAfterDrop ==
    [][(ObservesDrop /\ ready = 1) => (ready' = 1 /\ pc' # "lock")]_vars

\* C20 (amended): a pacer that observes the drop flag while STREAMING
\* discards the baseline and is STREAMING again in that same iteration
\* exactly when the units queued at that moment reach the fill threshold
\* (always so in low-latency mode); otherwise it is back in FILLING, drains
\* nothing and loops again.
C20_RefillAfterDrop ==
    [][(ObservesDrop /\ ready = 1) =>
          /\ last_clock' = NoClock
          /\ IF Len(h_muxed_data) >= FillThreshold
                THEN /\ ready' = 1
                     /\ pc' \in {"refill", "returned"}
                     /\ pc' = "refill" =>
                           /\ num_muxed_data' = Len(h_muxed_data)
                           /\ muxed_data' = h_muxed_data
                ELSE /\ ready' = 0
                     /\ pc' = "lock"
                     /\ n_removed' = n_removed
                     /\ h_muxed_data' = h_muxed_data]_vars

\* C20 witness: not in low-latency mode, after packets were sent, the drop
\* flag was observed with a single unit queued: the pacer is not ready, the
\* unit is still queued and the pacer waits for more.
C20_Witness ==
    /\ ~low_latency
    /\ Len(sent_log) >= 1
    /\ drop_note.seen
    /\ ready = 0
    /\ last_clock = NoClock
    /\ Len(h_muxed_data) = 1
    /\ pc = "wait"

\* the step assigns the baseline pair
BaselineAssigned ==
    start_mpeg_time' # start_mpeg_time \/ start_pcr_time' # start_pcr_time

\* the step sends a packet that finds no baseline (last_clock == -1)
FirstSendAfterReset == pc = "send" /\ last_clock = NoClock /\ sent_log' # sent_log

\* C21: the baseline pair changes only in the step that sends the first
\* packet after thread start or after an observed drop flag, which sets it
\* to that packet's clock reference and the clock read then; that send
\* leaves a baseline in force, which only an observed drop flag revokes, so
\* every other step (refill, sleep, later sends, waits, failures) keeps the
\* pair and it changes once per reset however many signals caused it.
C21_BaselineOncePerReset ==
    [][/\ BaselineAssigned => FirstSendAfterReset
       /\ FirstSendAfterReset =>
             (start_pcr_time' = pcrs[1] /\ start_mpeg_time' = clock /\ BaselineAssigned)
       /\ sent_log' # sent_log => last_clock' # NoClock
       /\ (last_clock # NoClock /\ last_clock' = NoClock) => ObservesDrop]_vars

\* C21 witness: two drop signals were raised and the flag was cleared; the
\* second packet was the first after the reset and took a new baseline, the
\* third one was sent on that baseline.
C21_Witness ==
    /\ n_drops = MaxDropSignals
    /\ ~output_drop
    /\ Len(sent_log) = 3
    /\ sent_log[2].rebased
    /\ sent_log[2].after_drop
    /\ ~sent_log[3].rebased
    /\ start_pcr_time = sent_log[2].pcr
    /\ start_pcr_time # sent_log[1].pcr_base

\* the thread is between pthread_mutex_lock (line 222) and the unlock that
\* ends the locked section (lines 247, 255, 260), the wait included
InLockedSection == pc \in {"wait", "locked"}

\* C22: the pacer holds output_mutex only inside the locked section: not
\* while it refills or reads the FIFOs, sleeps until the deadline or sends,
\* and on every path out of the locked section (the fill-threshold
\* continue, the allocation-failure return, the snapshot, the end of the
\* thread) the mutex has been released.
C22_MutexOnlyInLockedSection ==
    output_mutex = "pacer" => InLockedSection

\* the part of C22 about the thread while it runs or returns: the mutex is
\* free while it refills, reads, sleeps or sends and after every return
MutexFreeWhilePacing ==
    pc \in {"lock", "refill", "send_loop", "sleep", "send", "returned"}
        => output_mutex = "free"

\* the thread was cancelled inside pthread_cond_wait, close_output has run
\* and the thread has terminated
CancelledInWait ==
    pc = "cancelled" /\ exit_cause = "cancel_wait" /\ handler_runs = 1

\* C23: once a pacer cancelled inside pthread_cond_wait has run its cleanup
\* handler and terminated, output_mutex is not held by it, so a producer
\* that locks the mutex to enqueue gets it.
C23_CancelInWaitFreesMutex ==
    CancelledInWait => output_mutex = "free"

\* the step is the pacer's look at the queue and the drop flag, taken in
\* one piece under output_mutex and, for the flag, drop_mutex
DropCheck == pc = "locked" /\ pc' # "locked"

\* the step is a producer raising the drop signal
DropRaised == n_drops' = n_drops + 1

\* C24: a raised signal sets the flag and touches nothing of the pacer; a
\* set flag stays set through every step but the pacer's check; the check
\* clears it and, in the same step and before any packet is sent, discards
\* the baseline (last_clock = -1) and takes readiness back to 0 (from where
\* only the fill threshold restores it); a check that finds no flag resets
\* nothing; the next packet sent after an observed flag finds no baseline;
\* signals raised while the flag is set are absorbed by the one reset.
C24_DropSignalAppliedWhole ==
    /\ [][/\ DropRaised => (output_drop' /\ UNCHANGED <<locals, sent_log>>)
          /\ (output_drop /\ ~DropCheck) => output_drop'
          /\ (output_drop /\ DropCheck) =>
                /\ ~output_drop'
                /\ last_clock' = NoClock
                /\ ready' = ReadyAfterFill(0, Len(h_muxed_data), buffer_frames)
                /\ sent_log' = sent_log
                /\ drop_note'.resets = drop_note.resets + 1
          /\ (~output_drop /\ DropCheck) =>
                /\ ~output_drop'
                /\ last_clock' = last_clock
                /\ ready' = ReadyAfterFill(ready, Len(h_muxed_data), buffer_frames)
                /\ drop_note'.resets = drop_note.resets
          /\ (drop_note.seen /\ sent_log' # sent_log) => last_clock = NoClock]_vars
    /\ [](drop_note.resets + (IF output_drop THEN 1 ELSE 0) <= n_drops)
    /\ []((n_drops > 0 /\ ~output_drop) => drop_note.resets >= 1)

\* C24 witness: while the pacer was streaming two signals were raised before
\* its next check; the one check cleared the flag, discarded the baseline
\* and took the pacer back to filling, and no second reset followed.
C24_Witness ==
    /\ n_drops = MaxDropSignals
    /\ drop_note.resets = 1
    /\ ~output_drop
    /\ Len(sent_log) >= 1
    /\ drop_note.seen
    /\ last_clock = NoClock
    /\ ready = 0
    /\ pc = "lock"

\* C25: whatever the interleaving of enqueues, wakeups on encoder_cv and
\* the cancel request, start_encoder reads frames[0] and removes a frame
\* only when num_raw_frames > 0, and once it has found cancel_thread set it
\* leaves the loop with no frame in hand and releases its buffers, the FIFO
\* and the codec handle.
C25_ReadsOnlyQueuedFrames ==
    /\ enc.pc \in {"encode", "remove", "crashed"} =>
          (enc.count_at_read > 0 /\ enc.raw_frame # StaleFrame)
    /\ enc.pc = "remove" => enc.num_raw_frames > 0
    /\ enc.saw_cancel => (enc.pc \in {"end", "done"} /\ enc.exit = "cancel")
    /\ (enc.pc = "done" /\ enc.saw_cancel) =>
          \A k \in DOMAIN enc.res : enc.res[k] \in {"none", "freed"}

\* the part of C25 about cancellation: the thread that found cancel_thread
\* set processes nothing more, and the thread ends with every block released
EncCancelReleasesAll ==
    /\ enc.saw_cancel => (enc.pc \in {"end", "done"} /\ enc.exit = "cancel")
    /\ enc.pc = "done" => \A k \in DOMAIN enc.res : enc.res[k] \in {"none", "freed"}

====
